---- MODULE Spec2Model ----
(***************************************************************************)
(* mufetch: a terminal client that looks up a track, album or artist in a *)
(* remote catalog and prints a block-art cover next to a metadata panel.   *)
(*                                                                         *)
(* The module models                                                       *)
(*   - the image renderer (pkg/display, RenderImageLines and helpers),     *)
(*   - the side-by-side layout (displaySideBySideWithLinks),               *)
(*   - the catalog client (pkg/spotify, authenticate and the five calls),  *)
(*   - the search command (cmd, searchCmd.Run / searchAuto /               *)
(*     searchSpecific).                                                    *)
(*                                                                         *)
(* A string of the program that goes to the terminal is a sequence of      *)
(* pieces.  A piece is either visible text or a terminal escape sequence;  *)
(* both carry their characters, so that a substring test sees the bytes of *)
(* the whole string (escape sequences and link targets included) while the *)
(* rendered width counts visible text only.                                *)
(***************************************************************************)
EXTENDS Integers, Sequences, FiniteSets, TLC

VARIABLES
    \* ---- the search command (cmd) ----
    pc,          \* position of the process in searchCmd.Run and its callees
    searchType,  \* the --type flag
    reqSize,     \* the --size flag as given on the command line
    imageSize,   \* the package variable imageSize (clamped by Run)
    term,        \* everything written to the terminal, one entry per Print
    exitCode,    \* "running", or the exit status of the process
    locals,      \* local variables of the function the process is in
    cfg,         \* the loaded configuration
    \* ---- the catalog client (pkg/spotify) ----
    client,      \* the Client struct
    now,         \* the wall clock, in seconds
    ops,         \* the network operations performed so far, in order
    lastCall,    \* what the most recent client call did
    \* ---- the renderer and the layout, applied as functions ----
    renderer,    \* the ImageRenderer struct
    imageURL,    \* argument of RenderImageLines
    imageLines,  \* result of RenderImageLines / argument of the layout
    infoLines,   \* argument of displaySideBySideWithLinks
    links,       \* argument of displaySideBySideWithLinks
    printed      \* the lines displaySideBySideWithLinks printed

vars == <<pc, searchType, reqSize, imageSize, term, exitCode, locals, cfg,
          client, now, ops, lastCall,
          renderer, imageURL, imageLines, infoLines, links, printed>>

cmdVars == <<pc, searchType, reqSize, imageSize, term, exitCode, locals, cfg>>
clientVars == <<client, now, ops, lastCall>>
fnVars == <<renderer, imageURL, imageLines, infoLines, links, printed>>

\* no error
None == "none"

\* a nil pointer, and a pointer to v
Nil == <<>>
Some(v) == <<v>>

\* the parts of the state a specification does not use stay as they are here
IdleCmd ==
    /\ searchType = "auto" /\ reqSize = 0 /\ imageSize = 0
    /\ term = <<>> /\ exitCode = Nil /\ cfg = Nil
IdleClient == client = Nil /\ now = 0 /\ ops = <<>> /\ lastCall = Nil
IdleFn ==
    /\ renderer = Nil /\ imageURL = "" /\ imageLines = <<>>
    /\ infoLines = <<>> /\ links = <<>> /\ printed = <<>>

(***************************************************************************)
(* Strings                                                                 *)
(***************************************************************************)
\* visible text
Txt(s) == <<[esc |-> FALSE, txt |-> s]>>
\* an escape sequence (nothing of it is displayed)
Ctl(s) == <<[esc |-> TRUE, txt |-> s]>>

\* the empty string
Empty == <<>>

\* strings.Repeat(c, n)
RECURSIVE Repeat(_, _)
Repeat(c, n) ==
    IF n <= 0 THEN ""
    ELSE IF n = 1 THEN c
    ELSE Repeat(c, n \div 2) \o Repeat(c, n - (n \div 2))

RECURSIVE SumWidth(_, _)
SumWidth(s, i) ==
    IF i > Len(s) THEN 0
    ELSE (IF s[i].esc THEN 0 ELSE Len(s[i].txt)) + SumWidth(s, i + 1)

\* number of character cells the terminal shows for the string s
VisibleWidth(s) == SumWidth(s, 1)

RECURSIVE FlattenFrom(_, _)
FlattenFrom(s, i) ==
    IF i > Len(s) THEN "" ELSE s[i].txt \o FlattenFrom(s, i + 1)

\* the bytes of the string s, escape sequences included
Bytes(s) == FlattenFrom(s, 1)

Upper == <<"A", "B", "C", "D", "E", "F", "G", "H", "I", "J", "K", "L", "M",
           "N", "O", "P", "Q", "R", "S", "T", "U", "V", "W", "X", "Y", "Z">>
Lower == <<"a", "b", "c", "d", "e", "f", "g", "h", "i", "j", "k", "l", "m",
           "n", "o", "p", "q", "r", "s", "t", "u", "v", "w", "x", "y", "z">>

LowerOf(c) ==
    IF \E k \in DOMAIN Upper : Upper[k] = c
    THEN Lower[CHOOSE k \in DOMAIN Upper : Upper[k] = c]
    ELSE c

\* the characters lo..hi of s in lower case
RECURSIVE LowerRange(_, _, _)
LowerRange(s, lo, hi) ==
    IF lo > hi THEN ""
    ELSE IF lo = hi THEN LowerOf(SubSeq(s, lo, lo))
    ELSE LET mid == (lo + hi) \div 2
         IN  LowerRange(s, lo, mid) \o LowerRange(s, mid + 1, hi)

\* strings.ToLower
ToLower(s) == LowerRange(s, 1, Len(s))

\* strings.Contains
Contains(s, sub) ==
    \E i \in 0..(Len(s) - Len(sub)) : SubSeq(s, i + 1, i + Len(sub)) = sub

\* ANSI color codes (display package constants)
ColorReset == Ctl("\\033[0m")
ColorRed == Ctl("\\033[31m")
ColorGreen == Ctl("\\033[32m")
ColorYellow == Ctl("\\033[33m")
ColorBlue == Ctl("\\033[34m")
ColorPurple == Ctl("\\033[35m")
ColorCyan == Ctl("\\033[36m")
ColorWhite == Ctl("\\033[37m")
ColorBold == Ctl("\\033[1m")

(***************************************************************************)
(* The image renderer                                                      *)
(***************************************************************************)
\* the clamp limits of searchCmd.Run
MinImageSize == 15
MaxImageSize == 35

\* getPlaceholderLines: the height the placeholder is padded to and the width
\* of a padding line
PlaceholderHeight == 20
PlaceholderPadWidth == 31

\* decoded pictures (width x height in pixels) a download can yield
Pictures == {[w |-> 640, h |-> 640], [w |-> 3, h |-> 2]}

\* what the unauthenticated GET of an image URL can come back with: a
\* transport error, or a response with a status and a body that either
\* decodes to a picture or does not (pic = Nil)
ImageResponses ==
    {[neterr |-> TRUE, status |-> 0, pic |-> Nil]} \cup
    {[neterr |-> FALSE, status |-> s, pic |-> p] :
        s \in {200, 404}, p \in {Some(q) : q \in Pictures} \cup {Nil}}

NewImageRenderer(size) == [width |-> size, height |-> size]

\* downloadImage: http.Get, then image.Decode of the body; the status of the
\* response is not looked at
downloadImage(url, resp) ==
    IF resp.neterr THEN [img |-> Nil, err |-> "get"]
    ELSE IF resp.pic = Nil THEN [img |-> Nil, err |-> "decode"]
    ELSE [img |-> resp.pic, err |-> None]

\* a resize that keeps the source's aspect ratio, fitting it into w x h
ResizeKeepAspect(img, w, h) ==
    IF img.w <= 0 \/ img.h <= 0 \/ w <= 0 \/ h <= 0 THEN [w |-> 0, h |-> 0]
    ELSE IF img.w >= img.h THEN [w |-> w, h |-> (h * img.h) \div img.w]
    ELSE [w |-> (w * img.w) \div img.h, h |-> h]

\* imaging.Resize(img, w, h, Lanczos) with both target sides positive: the
\* result is exactly w x h whatever the source's aspect ratio; an empty source
\* or a non-positive target gives an empty picture
Resize(img, w, h) ==
    IF w <= 0 \/ h <= 0 \/ img.w <= 0 \/ img.h <= 0
    THEN [w |-> 0, h |-> 0]
    ELSE [w |-> w, h |-> h]

\* one pixel: background colour escape (of the pixel's r, g, b), two blanks,
\* reset
BlockCell == Ctl("\\033[48;2;r;g;bm") \o Txt("  ") \o ColorReset

RECURSIVE BlockRow(_)
BlockRow(n) == IF n <= 0 THEN <<>> ELSE BlockCell \o BlockRow(n - 1)

\* getBlockArtLines: one line per pixel row, a blank then one cell per pixel
getBlockArtLines(r, img) ==
    LET resized == Resize(img, r.width, r.height)
    IN  [y \in 1..resized.h |-> Txt(" ") \o BlockRow(resized.w)]

\* the eight lines of the "NO IMAGE AVAILABLE" box (the box-drawing
\* characters are written +, - and |)
PlaceholderBox ==
    LET row(s) == Txt(" ") \o ColorWhite \o Txt(s) \o ColorReset
    IN  << row("+-------------------------------+"),
           row("|                               |"),
           row("|                               |"),
           row("|           NO IMAGE            |"),
           row("|           AVAILABLE           |"),
           row("|                               |"),
           row("|                               |"),
           row("+-------------------------------+") >>

RECURSIVE PadTo(_, _, _)
PadTo(lines, n, pad) ==
    IF Len(lines) >= n THEN lines ELSE PadTo(Append(lines, pad), n, pad)

\* getPlaceholderLines: the eight box lines, then padding lines of 31 blanks
\* until there are 20 lines
getPlaceholderLines(r) ==
    PadTo(PlaceholderBox, PlaceholderHeight, Txt(Repeat(" ", PlaceholderPadWidth)))

\* RenderImageLines
RenderImageLines(r, url, resp) ==
    IF url = "" THEN getPlaceholderLines(r)
    ELSE LET got == downloadImage(url, resp)
         IN  IF got.err # None THEN getPlaceholderLines(r)
             ELSE getBlockArtLines(r, got.img[1])

(***************************************************************************)
(* The layout                                                              *)
(***************************************************************************)
\* createClickableLink: the hyperlink escape carrying the target, the visible
\* text, the closing hyperlink escape
createClickableLink(url, text) ==
    Ctl("\\033]8;;" \o url \o "\\033\\\\") \o Txt(text) \o Ctl("\\033]8;;\\033\\\\")

\* the three blanks between the image column and the text column, and between
\* the two links of the link row ("%s   %s")
Gap == Txt("   ")

\* the blank image column printed when the panel is taller than the image
BlankImageWidth == 46
BlankImageLine == Txt(Repeat(" ", BlankImageWidth))

\* strings.Contains(strings.ToLower(link), "spotify")
IsSpotifyLink(link) == Contains(ToLower(Bytes(link)), "spotify")

\* the loop over links: the last link naming the marker, the last that does not
RECURSIVE SeparateLinks(_, _, _)
SeparateLinks(ls, i, acc) ==
    IF i > Len(ls) THEN acc
    ELSE IF IsSpotifyLink(ls[i])
         THEN SeparateLinks(ls, i + 1, [acc EXCEPT !.spotifyLink = ls[i]])
         ELSE SeparateLinks(ls, i + 1, [acc EXCEPT !.imageLink = ls[i]])

\* the text of the link row (linkLine), for a non-empty list of links
LinkLine(ls) ==
    LET sep == SeparateLinks(ls, 1, [spotifyLink |-> Empty, imageLink |-> Empty])
        spotifyLink == IF sep.spotifyLink = Empty /\ Len(ls) > 0 THEN ls[1]
                       ELSE sep.spotifyLink
        imageLink == IF sep.imageLink = Empty /\ Len(ls) > 1 THEN ls[2]
                     ELSE sep.imageLink
    IN  IF spotifyLink # Empty /\ imageLink # Empty
        THEN spotifyLink \o Gap \o imageLink
        ELSE IF spotifyLink # Empty THEN spotifyLink
        ELSE imageLink

Max(a, b) == IF a > b THEN a ELSE b

\* a layout that leaves one line, not two, below the panel
TargetLinesOneBelow(maxLines) == maxLines - 1

\* targetLines: the number of lines printed above the link row
TargetLines(maxLines) == maxLines - 2

\* displaySideBySideWithLinks: the lines it prints, in order (each without its
\* closing newline)
displaySideBySideWithLinks(imgs, infos, ls) ==
    LET maxLines == Max(Len(imgs), Len(infos))
        targetLines == TargetLines(maxLines)
        padded == PadTo(infos, targetLines, Empty)
        main == [i \in 1..Max(targetLines, 0) |->
                    IF i <= Len(imgs)
                    THEN imgs[i] \o Gap \o padded[i]
                    ELSE BlankImageLine \o Gap \o padded[i]]
        imageLine == IF targetLines < Len(imgs) THEN imgs[targetLines + 1]
                     ELSE BlankImageLine
        from == IF Len(ls) > 0 THEN targetLines + 2 ELSE targetLines + 1
        rest == [k \in 1..Max(Len(imgs) - from + 1, 0) |-> imgs[from + k - 1] \o Gap]
    IN  IF Len(ls) > 0
        THEN main \o <<imageLine \o Gap \o LinkLine(ls)>> \o rest
        ELSE main \o rest

(***************************************************************************)
(* Formatting helpers of the display package                               *)
(***************************************************************************)
Digits == <<"0", "1", "2", "3", "4", "5", "6", "7", "8", "9">>

\* fmt.Sprintf("%d", n)
RECURSIVE IntToStr(_)
IntToStr(n) ==
    IF n < 0 THEN "-" \o IntToStr(0 - n)
    ELSE IF n < 10 THEN Digits[n + 1]
    ELSE IntToStr(n \div 10) \o Digits[(n % 10) + 1]

IsDigit(c) == \E k \in DOMAIN Digits : Digits[k] = c
DigitVal(c) == (CHOOSE k \in DOMAIN Digits : Digits[k] = c) - 1

AllDigits(s) == \A i \in 1..Len(s) : IsDigit(SubSeq(s, i, i))

RECURSIVE StrToInt(_)
StrToInt(s) ==
    IF Len(s) = 0 THEN 0
    ELSE 10 * StrToInt(SubSeq(s, 1, Len(s) - 1)) + DigitVal(SubSeq(s, Len(s), Len(s)))

IsLeap(y) == (y % 4 = 0 /\ y % 100 # 0) \/ y % 400 = 0

DaysIn(m, y) ==
    IF m = 2 THEN (IF IsLeap(y) THEN 29 ELSE 28)
    ELSE IF m \in {4, 6, 9, 11} THEN 30 ELSE 31

MonthNames == <<"Jan", "Feb", "Mar", "Apr", "May", "Jun",
                "Jul", "Aug", "Sep", "Oct", "Nov", "Dec">>

\* time.Parse("2006-01-02", s): whether it succeeds
ParsesAsDate(s) ==
    /\ Len(s) = 10
    /\ SubSeq(s, 5, 5) = "-" /\ SubSeq(s, 8, 8) = "-"
    /\ AllDigits(SubSeq(s, 1, 4)) /\ AllDigits(SubSeq(s, 6, 7)) /\ AllDigits(SubSeq(s, 9, 10))
    /\ StrToInt(SubSeq(s, 6, 7)) \in 1..12
    /\ StrToInt(SubSeq(s, 9, 10)) \in
           1..DaysIn(StrToInt(SubSeq(s, 6, 7)), StrToInt(SubSeq(s, 1, 4)))

\* time.Parse("2006", s): whether it succeeds
ParsesAsYear(s) == Len(s) = 4 /\ AllDigits(s)

\* t.Format("2006"): the year in four digits
FormatYear(y) == Repeat("0", 4 - Len(IntToStr(y))) \o IntToStr(y)

\* an ordinal suffix that goes by the last digit alone
OrdinalSuffixByLastDigit(day) ==
    CASE day % 10 = 1 -> "st"
      [] day % 10 = 2 -> "nd"
      [] day % 10 = 3 -> "rd"
      [] OTHER -> "th"

\* the ordinal suffix of a day of the month
OrdinalSuffix(day) ==
    IF day >= 11 /\ day <= 13 THEN "th"
    ELSE CASE day % 10 = 1 -> "st"
           [] day % 10 = 2 -> "nd"
           [] day % 10 = 3 -> "rd"
           [] OTHER -> "th"

\* formatOrdinalDate
formatOrdinalDate(dateStr) ==
    IF dateStr = "" THEN "N/A"
    ELSE IF ~ParsesAsDate(dateStr)
         THEN (IF ~ParsesAsYear(dateStr) THEN dateStr
               ELSE FormatYear(StrToInt(dateStr)))
         ELSE LET day == StrToInt(SubSeq(dateStr, 9, 10))
                  month == MonthNames[StrToInt(SubSeq(dateStr, 6, 7))]
                  year == StrToInt(SubSeq(dateStr, 1, 4))
              IN  IntToStr(day) \o OrdinalSuffix(day) \o " " \o month \o " " \o IntToStr(year)

\* formatDuration, of a duration in milliseconds: "%d:%02d"
formatDuration(ms) ==
    LET minutes == ms \div 60000
        seconds == (ms \div 1000) % 60
    IN  IntToStr(minutes) \o ":" \o Digits[(seconds \div 10) + 1] \o Digits[(seconds % 10) + 1]

\* "%.1f" of n / unit, for n / unit not half-way between two tenths
OneDecimal(n, unit) ==
    LET tenths == (n * 10 + unit \div 2) \div unit
    IN  IntToStr(tenths \div 10) \o "." \o Digits[(tenths % 10) + 1]

\* formatNumber
formatNumber(n) ==
    IF n >= 1000000 THEN OneDecimal(n, 1000000) \o "M"
    ELSE IF n >= 1000 THEN OneDecimal(n, 1000) \o "K"
    ELSE IntToStr(n)

formatBool(b) == IF b THEN "Yes" ELSE "No"

formatString(s) == IF s = "" THEN "N/A" ELSE s

\* formatInfoLine: bold label, padding to a 14-character column, coloured value
MinPadding == 2
MaxLabelWidth == 12
formatInfoLine(label, value, color) ==
    LET padding == Max(MaxLabelWidth - Len(label) + MinPadding, MinPadding)
    IN  ColorBold \o Txt(label) \o ColorReset \o Txt(Repeat(" ", padding))
        \o color \o value \o ColorReset

\* strings.Join
RECURSIVE Join(_, _)
Join(ss, sep) ==
    IF Len(ss) = 0 THEN ""
    ELSE IF Len(ss) = 1 THEN ss[1]
    ELSE ss[1] \o sep \o Join(Tail(ss), sep)

\* strings.Join on strings that carry escape sequences
RECURSIVE JoinPieces(_, _)
JoinPieces(ss, sep) ==
    IF Len(ss) = 0 THEN Empty
    ELSE IF Len(ss) = 1 THEN ss[1]
    ELSE ss[1] \o Txt(sep) \o JoinPieces(Tail(ss), sep)

\* the genre string: joined by ", ", cut to 47 characters and "..." when
\* longer than 50
MaxGenreLen == 50
GenreString(genres) ==
    LET genreString == Join(genres, ", ")
    IN  IF Len(genreString) > MaxGenreLen
        THEN SubSeq(genreString, 1, MaxGenreLen - 3) \o "..."
        ELSE genreString

(***************************************************************************)
(* Catalog records (pkg/spotify types), with the fields the display reads  *)
(***************************************************************************)
\* link targets: the catalog's own pages, and image hosts with and without
\* the word the link row looks for in their name
CatalogURLs == {"https://open.spotify.com/x", ""}
ImageURLs == {"https://i.scdn.co/image/1", "https://image-cdn-ak.Spotifycdn.com/image/2", ""}

\* Images: no image, or one image with one of the image URLs
ImageLists == {<<>>} \cup {<<[URL |-> u]>> : u \in ImageURLs}

MkArtist(id, images, genres, url) ==
    [ID |-> id, Name |-> "Radiohead", Images |-> images, Genres |-> genres,
     Popularity |-> 80, Followers |-> [Total |-> 1500],
     ExternalURL |-> [Spotify |-> url]]

MkAlbum(id, artists, images, genres, label, items, url) ==
    [ID |-> id, Name |-> "In Rainbows", Artists |-> artists, Images |-> images,
     ReleaseDate |-> "2007-10-10", TotalTracks |-> Len(items),
     Genres |-> genres, Popularity |-> 70, AlbumType |-> "album", Label |-> label,
     ExternalURL |-> [Spotify |-> url], Tracks |-> [Items |-> items]]

MkTrack(id, artists, album, url) ==
    [ID |-> id, Name |-> "All I Need", Artists |-> artists, Album |-> album,
     Duration |-> 125000, Popularity |-> 60, TrackNumber |-> 5, Explicit |-> FALSE,
     ExternalURL |-> [Spotify |-> url]]

(***************************************************************************)
(* The panels and link lists of DisplayTrack, DisplayAlbum, DisplayArtist  *)
(***************************************************************************)
\* the clickable artist names of a track or album
ArtistNames(artists) ==
    [i \in 1..Len(artists) |->
        createClickableLink(artists[i].ExternalURL.Spotify, artists[i].Name)]

\* a Genres line that is shown whether or not there are genres
GenresLineAlways(genres) ==
    <<formatInfoLine("Genres", Txt(GenreString(genres)), ColorRed)>>

\* the optional Genres line
GenresLine(genres) ==
    IF Len(genres) > 0
    THEN <<formatInfoLine("Genres", Txt(GenreString(genres)), ColorRed)>>
    ELSE <<>>

\* the cap on listed top tracks
MaxTopTracks == 5

Min(a, b) == IF a < b THEN a ELSE b

\* the optional Top Tracks section: blank line, header, up to five links
TopTracksSection(tracks) ==
    IF Len(tracks) > 0
    THEN <<Empty, ColorBold \o Txt("Top Tracks") \o ColorReset>>
         \o [i \in 1..Min(Len(tracks), MaxTopTracks) |->
                ColorGreen
                \o createClickableLink(tracks[i].ExternalURL.Spotify, tracks[i].Name)
                \o ColorReset]
    ELSE <<>>

\* DisplayTrack: infoLines, given the genres after the fallback
TrackInfoLines(track, genres) ==
    << formatInfoLine("Name", Txt(track.Name), ColorGreen),
       formatInfoLine("Artist", JoinPieces(ArtistNames(track.Artists), ", "), ColorYellow),
       formatInfoLine("Album",
           createClickableLink(track.Album.ExternalURL.Spotify, track.Album.Name), ColorBlue),
       formatInfoLine("Duration", Txt(formatDuration(track.Duration)), ColorWhite),
       formatInfoLine("Track", Txt(IntToStr(track.TrackNumber)), ColorCyan),
       formatInfoLine("Explicit", Txt(formatBool(track.Explicit)), ColorRed),
       formatInfoLine("Released", Txt(formatOrdinalDate(track.Album.ReleaseDate)), ColorCyan),
       formatInfoLine("Popularity", Txt(IntToStr(track.Popularity) \o "%"), ColorPurple) >>
    \o GenresLine(genres)

\* the link list of an entity shown with an album cover (track, album): the
\* cover link when there is an image, then the catalog link
CoverLinks(images, url) ==
    (IF Len(images) > 0
     THEN <<ColorBlue \o createClickableLink(images[1].URL, "Album Cover") \o ColorReset>>
     ELSE <<>>)
    \o <<ColorGreen \o createClickableLink(url, "Spotify") \o ColorReset>>

\* DisplayTrack: links
TrackLinks(track) == CoverLinks(track.Album.Images, track.ExternalURL.Spotify)

RECURSIVE SumDuration(_, _)
SumDuration(items, i) ==
    IF i > Len(items) THEN 0 ELSE items[i].Duration + SumDuration(items, i + 1)

\* DisplayAlbum: infoLines, given the genres after the fallback
AlbumInfoLines(album, genres) ==
    << formatInfoLine("Name", Txt(album.Name), ColorGreen),
       formatInfoLine("Artist", JoinPieces(ArtistNames(album.Artists), ", "), ColorYellow),
       formatInfoLine("Type", Txt(album.AlbumType), ColorBlue),
       formatInfoLine("Released", Txt(formatOrdinalDate(album.ReleaseDate)), ColorCyan),
       formatInfoLine("Tracks", Txt(IntToStr(album.TotalTracks)), ColorPurple),
       formatInfoLine("Duration", Txt(formatDuration(SumDuration(album.Tracks.Items, 1))),
                      ColorWhite),
       formatInfoLine("Popularity", Txt(IntToStr(album.Popularity) \o "%"), ColorPurple) >>
    \o GenresLine(genres)
    \o (IF Len(album.Label) > 0
        THEN <<formatInfoLine("Label", Txt(formatString(album.Label)), ColorWhite)>>
        ELSE <<>>)
    \o TopTracksSection(album.Tracks.Items)

\* DisplayAlbum: links
AlbumLinks(album) == CoverLinks(album.Images, album.ExternalURL.Spotify)

\* an artist panel that shows the counts and tracks only when all three
\* supplemental fetches succeeded
ArtistInfoLinesAllOrNothing(artist, topTracks, albums, singles) ==
    LET all == topTracks # Nil /\ albums # Nil /\ singles # Nil
    IN  << formatInfoLine("Name", Txt(artist.Name), ColorGreen),
           formatInfoLine("Followers", Txt(formatNumber(artist.Followers.Total)), ColorYellow),
           formatInfoLine("Popularity", Txt(IntToStr(artist.Popularity) \o "%"), ColorPurple) >>
        \o GenresLine(artist.Genres)
        \o (IF all
            THEN <<formatInfoLine("Albums", Txt(IntToStr(albums[1].Total)), ColorGreen),
                   formatInfoLine("Singles", Txt(IntToStr(singles[1].Total)), ColorYellow)>>
                 \o TopTracksSection(topTracks[1].Tracks)
            ELSE <<>>)

\* DisplayArtist: infoLines, given the results of the three supplemental
\* fetches (Nil for a fetch that failed)
ArtistInfoLines(artist, topTracks, albums, singles) ==
    << formatInfoLine("Name", Txt(artist.Name), ColorGreen),
       formatInfoLine("Followers", Txt(formatNumber(artist.Followers.Total)), ColorYellow),
       formatInfoLine("Popularity", Txt(IntToStr(artist.Popularity) \o "%"), ColorPurple) >>
    \o GenresLine(artist.Genres)
    \o (IF albums # Nil
        THEN <<formatInfoLine("Albums", Txt(IntToStr(albums[1].Total)), ColorGreen)>>
        ELSE <<>>)
    \o (IF singles # Nil
        THEN <<formatInfoLine("Singles", Txt(IntToStr(singles[1].Total)), ColorYellow)>>
        ELSE <<>>)
    \o (IF topTracks # Nil THEN TopTracksSection(topTracks[1].Tracks) ELSE <<>>)

\* DisplayArtist: links: the catalog link, then the photo link when there is
\* an image
ArtistLinks(artist) ==
    <<ColorGreen \o createClickableLink(artist.ExternalURL.Spotify, "Spotify") \o ColorReset>>
    \o (IF Len(artist.Images) > 0
        THEN <<ColorBlue \o createClickableLink(artist.Images[1].URL, "Artist Photo")
               \o ColorReset>>
        ELSE <<>>)

(***************************************************************************)
(* The catalog client (pkg/spotify)                                        *)
(***************************************************************************)
\* NewClient: the credentials, no token, the zero time as expiry
NewClient(clientID, clientSecret) ==
    [ClientID |-> clientID, ClientSecret |-> clientSecret,
     AccessToken |-> "", TokenExpiry |-> 0]

\* What the token endpoint can answer: the request fails ("neterr"), the
\* status is not 200 ("status"), the body is not a token response ("decode"),
\* or a token and its lifetime in seconds come back ("ok").
TokenAnswers(tokens, lifetimes) ==
    {[kind |-> k, access_token |-> "", expires_in |-> 0] :
        k \in {"neterr", "status", "decode"}}
    \cup {[kind |-> "ok", access_token |-> t, expires_in |-> e] :
            t \in tokens, e \in lifetimes}

\* What the catalog can answer to a GET: as above, with the decoded body
ApiAnswers(bodies) ==
    {[kind |-> k, body |-> Nil] : k \in {"neterr", "status", "decode"}}
    \cup {[kind |-> "ok", body |-> Some(b)] : b \in bodies}

\* a client that forgets the stored token and expiry when the exchange fails
authenticateForgetting(c, t, env) ==
    IF t < c.TokenExpiry
    THEN [client |-> c, err |-> None, sent |-> <<>>, now |-> t]
    ELSE LET arrive == t + env.tokLat
             sent == <<[req |-> "token", ok |-> env.tok.kind = "ok",
                        basic |-> c.ClientID \o ":" \o c.ClientSecret, at |-> t]>>
         IN  IF env.tok.kind # "ok"
             THEN [client |-> [c EXCEPT !.AccessToken = "", !.TokenExpiry = 0],
                   err |-> env.tok.kind, sent |-> sent, now |-> arrive]
             ELSE [client |-> [c EXCEPT !.AccessToken = env.tok.access_token,
                                        !.TokenExpiry = arrive + env.tok.expires_in],
                   err |-> None, sent |-> sent, now |-> arrive]

\* a client that exchanges the token on every call, whatever the expiry
authenticateAlways(c, t, env) ==
    LET arrive == t + env.tokLat
        sent == <<[req |-> "token", ok |-> env.tok.kind = "ok",
                   basic |-> c.ClientID \o ":" \o c.ClientSecret, at |-> t]>>
    IN  IF env.tok.kind # "ok"
        THEN [client |-> c, err |-> env.tok.kind, sent |-> sent, now |-> arrive]
        ELSE [client |-> [c EXCEPT !.AccessToken = env.tok.access_token,
                                   !.TokenExpiry = arrive + env.tok.expires_in],
              err |-> None, sent |-> sent, now |-> arrive]

\* authenticate, called at time t.  env.tok is the token endpoint's answer and
\* env.tokLat the time the exchange takes: the expiry is computed from the
\* clock read after the answer has arrived.  The result carries the client as
\* it is left, the error, the requests sent and the time at return.
authenticate(c, t, env) ==
    IF t < c.TokenExpiry
    THEN [client |-> c, err |-> None, sent |-> <<>>, now |-> t]
    ELSE LET arrive == t + env.tokLat
             sent == <<[req |-> "token", ok |-> env.tok.kind = "ok",
                        basic |-> c.ClientID \o ":" \o c.ClientSecret, at |-> t]>>
         IN  IF env.tok.kind # "ok"
             THEN [client |-> c, err |-> env.tok.kind, sent |-> sent, now |-> arrive]
             ELSE [client |-> [c EXCEPT !.AccessToken = env.tok.access_token,
                                        !.TokenExpiry = arrive + env.tok.expires_in],
                   err |-> None, sent |-> sent, now |-> arrive]

\* a call that sends its GET whether or not authenticate succeeded
GetUnauthenticated(c, t, env, req, arg) ==
    LET a == authenticate(c, t, env)
        get == [req |-> req, ok |-> FALSE, arg |-> arg,
                bearer |-> a.client.AccessToken, at |-> a.now]
    IN  [client |-> a.client, res |-> Nil,
         err |-> IF a.err # None THEN a.err ELSE "status",
         sent |-> Append(a.sent, get), now |-> a.now]

\* The body shared by the five calls: authenticate, then one GET carrying the
\* stored token; a record comes back only from a 200 answer that decodes.
Get(c, t, env, req, arg) ==
    LET a == authenticate(c, t, env)
    IN  IF a.err # None
        THEN [client |-> a.client, res |-> Nil, err |-> a.err,
              sent |-> a.sent, now |-> a.now]
        ELSE LET get == [req |-> req, ok |-> env.api.kind = "ok", arg |-> arg,
                         bearer |-> a.client.AccessToken, at |-> a.now]
             IN  [client |-> a.client,
                  res |-> IF env.api.kind = "ok" THEN env.api.body ELSE Nil,
                  err |-> IF env.api.kind = "ok" THEN None ELSE env.api.kind,
                  sent |-> Append(a.sent, get),
                  now |-> a.now + env.apiLat]

Search(c, t, env, query, sType) == Get(c, t, env, "search", sType)
GetAlbum(c, t, env, albumID) == Get(c, t, env, "album", albumID)
GetArtist(c, t, env, artistID) == Get(c, t, env, "artist", artistID)
GetArtistTopTracks(c, t, env, artistID) == Get(c, t, env, "top-tracks", artistID)
GetArtistAlbums(c, t, env, artistID, includeGroups) ==
    Get(c, t, env, "artist-albums", includeGroups)

\* an answer nobody asked for
NoAnswer == [kind |-> "unasked", access_token |-> "", expires_in |-> 0]
NoApiAnswer == [kind |-> "unasked", body |-> Nil]

\* The environments of one call made on client c at time t: the answer of the
\* token endpoint and of the catalog and the time each takes.  An endpoint the
\* call does not reach (no exchange while the token is valid, no GET after a
\* failed exchange) gives no answer.
CallEnvs(c, t, tokAnswers, apiAnswers, latencies) ==
    LET quiet == [tok |-> NoAnswer, tokLat |-> 0, api |-> NoApiAnswer, apiLat |-> 0]
        tokParts ==
            IF authenticate(c, t, quiet).sent = <<>>
            THEN {quiet}
            ELSE {[quiet EXCEPT !.tok = a, !.tokLat = l] : a \in tokAnswers, l \in latencies}
    IN  UNION {IF authenticate(c, t, e).err # None
               THEN {e}
               ELSE {[e EXCEPT !.api = a, !.apiLat = l] : a \in apiAnswers, l \in latencies}
               : e \in tokParts}

\* what a call leaves in lastCall: the method, what came back from the token
\* endpoint, the requests sent, the error and the record returned
CallRecord(op, env, ret) ==
    Some([op |-> op, tok |-> env.tok, sent |-> ret.sent, err |-> ret.err, res |-> ret.res])

(***************************************************************************)
(* ClientSpec: any sequence of calls on one client, at any times           *)
(***************************************************************************)
\* the clock stops the model at MaxTime; a round trip takes up to MaxLatency
\* seconds and a token lives up to MaxExpiresIn seconds
MaxTime == 4
MaxLatency == 1
MaxExpiresIn == 2

ClientTokens == {"tokenA", "tokenB"}

ClientEnvs(bodies) ==
    CallEnvs(client, now, TokenAnswers(ClientTokens, 0..MaxExpiresIn),
             ApiAnswers(bodies), 0..MaxLatency)

ClientInit ==
    /\ pc = "client"
    /\ client = NewClient("id", "secret")
    /\ now = 1
    /\ ops = <<>>
    /\ lastCall = Nil
    /\ locals = Nil
    /\ IdleCmd
    /\ IdleFn

\* a call returns: the client, the clock and the record of the call change
Returned(op, env, ret) ==
    /\ ret.now <= MaxTime
    /\ client' = ret.client
    /\ now' = ret.now
    /\ lastCall' = CallRecord(op, env, ret)
    /\ UNCHANGED <<ops, renderer, imageURL, imageLines, infoLines, links, printed>>
    /\ UNCHANGED cmdVars

CallSearch ==
    /\ pc = "client"
    /\ \E env \in ClientEnvs({"result"}) :
           Returned("Search", env, Search(client, now, env, "q", "track"))

CallGetAlbum ==
    /\ pc = "client"
    /\ \E env \in ClientEnvs({"album"}) :
           Returned("GetAlbum", env, GetAlbum(client, now, env, "id"))

CallGetArtist ==
    /\ pc = "client"
    /\ \E env \in ClientEnvs({"artist"}) :
           Returned("GetArtist", env, GetArtist(client, now, env, "id"))

CallGetArtistTopTracks ==
    /\ pc = "client"
    /\ \E env \in ClientEnvs({"tracks"}) :
           Returned("GetArtistTopTracks", env, GetArtistTopTracks(client, now, env, "id"))

CallGetArtistAlbums ==
    /\ pc = "client"
    /\ \E env \in ClientEnvs({"albums"}) :
           Returned("GetArtistAlbums", env, GetArtistAlbums(client, now, env, "id", "album"))

\* time passes between two calls
Wait ==
    /\ pc = "client"
    /\ now < MaxTime
    /\ now' = now + 1
    /\ UNCHANGED <<client, ops, lastCall>>
    /\ UNCHANGED cmdVars
    /\ UNCHANGED fnVars

ClientNext ==
    \/ CallSearch
    \/ CallGetAlbum
    \/ CallGetArtist
    \/ CallGetArtistTopTracks
    \/ CallGetArtistAlbums
    \/ Wait

ClientSpec == ClientInit /\ [][ClientNext]_vars

(***************************************************************************)
(* The search command (cmd): searchCmd.Run, searchAuto, searchSpecific and *)
(* the display functions they end in.  The process moves from one network  *)
(* operation to the next; pc names the operation it is about to perform.   *)
(***************************************************************************)
Query == "All I Need"

\* values of the --type flag: the default, the three kinds, and another word
SearchTypes == {"auto", "track", "album", "artist", "playlist"}

\* values of the --size flag
ReqSizes == {-1, 14, 15, 20, 35, 36, 50}

\* the configured credentials: present, or one of them missing
Configs ==
    {[SpotifyClientID |-> "id", SpotifyClientSecret |-> "secret"],
     [SpotifyClientID |-> "", SpotifyClientSecret |-> "secret"],
     [SpotifyClientID |-> "id", SpotifyClientSecret |-> ""]}

\* HasCredentials
HasCredentials(config) ==
    config.SpotifyClientID # "" /\ config.SpotifyClientSecret # ""

\* the size check of Run, with the upper limit left out
ClampSizeNoUpper(n) == IF n < MinImageSize THEN MinImageSize ELSE n

\* the size check of Run ("Validate image size")
ClampSize(n) ==
    LET low == IF n < MinImageSize THEN MinImageSize ELSE n
    IN  IF low > MaxImageSize THEN MaxImageSize ELSE low

\* terminal control sequences written by Run
HideCursor == Ctl("\\033[?25l")
ShowCursor == Ctl("\\033[?25h")
Newline == Ctl("\n")
CursorUpClear == Ctl("\\033[F") \o Ctl("\\033[K") \o Newline

\* fmt.Println / Printf of a message ending in a newline
Println(msg) == Txt(msg) \o Newline

\* Run returns: the cursor is moved up and the line cleared, then the deferred
\* show-cursor runs
RunReturns(t) == t \o <<CursorUpClear, ShowCursor>>

\* ---- what the catalog holds ----
SomeArtist == MkArtist("artist1", <<>>, <<"art rock">>, "https://open.spotify.com/x")

ListedTrack(n) ==
    [Name |-> "Track " \o IntToStr(n), Duration |-> 200000,
     ExternalURL |-> [Spotify |-> "https://open.spotify.com/x"]]

\* albums, each by one artist: with a cover, no genres of its own, a label and
\* six tracks; and without cover, label and tracks but with genres
RunAlbums ==
    {MkAlbum("album1", <<SomeArtist>>, <<[URL |-> "https://i.scdn.co/image/1"]>>, <<>>,
             "XL", [n \in 1..(MaxTopTracks + 1) |-> ListedTrack(n)],
             "https://open.spotify.com/x"),
     MkAlbum("album2", <<SomeArtist>>, <<>>, <<"rock">>, "", <<>>,
             "https://open.spotify.com/x")}

\* tracks: on either album, by one artist or none
RunTracks ==
    {MkTrack("track1", arts, al, "https://open.spotify.com/x") :
        arts \in {<<>>, <<SomeArtist>>}, al \in RunAlbums}

\* artists: with a photo and many genres, and with neither
RunArtists ==
    {MkArtist("artist1", <<[URL |-> "https://image-cdn-ak.Spotifycdn.com/image/2"]>>,
              <<"art rock", "alternative rock", "permanent wave", "melancholia">>,
              "https://open.spotify.com/x"),
     MkArtist("artist2", <<>>, <<>>, "https://open.spotify.com/x")}

RunTopTracks ==
    {[Tracks |-> <<>>], [Tracks |-> [n \in 1..(MaxTopTracks + 1) |-> ListedTrack(n)]]}

RunArtistAlbums == {[Items |-> <<>>, Total |-> 9]}

\* the answers to a search of one kind: nothing found, or one item of that
\* kind (a word that is no kind finds nothing)
SearchBodies(sType) ==
    LET body(ts, als, ars) ==
            [Tracks |-> [Items |-> ts], Albums |-> [Items |-> als],
             Artists |-> [Items |-> ars]]
    IN  {body(<<>>, <<>>, <<>>)}
        \cup (IF sType = "track" THEN {body(<<t>>, <<>>, <<>>) : t \in RunTracks} ELSE {})
        \cup (IF sType = "album" THEN {body(<<>>, <<[ID |-> "album1"]>>, <<>>)} ELSE {})
        \cup (IF sType = "artist" THEN {body(<<>>, <<>>, <<[ID |-> "artist1"]>>)} ELSE {})

\* during one run a round trip takes a second and a token outlives the run
TokenLifetime == 3600
RunFailures == {"status"}
RunEnvs(bodies) ==
    CallEnvs(client, now,
             {a \in TokenAnswers({"token"}, {TokenLifetime}) : a.kind \in RunFailures \cup {"ok"}},
             {a \in ApiAnswers(bodies) : a.kind \in RunFailures \cup {"ok"}},
             {1})

\* the entry of ops for a request: what was asked, of which call site, and
\* whether the answer was usable
Logged(sent, role) ==
    [i \in 1..Len(sent) |->
        [req |-> sent[i].req, ok |-> sent[i].ok,
         arg |-> IF sent[i].req = "token" THEN "" ELSE sent[i].arg,
         role |-> IF sent[i].req = "token" THEN "authenticate" ELSE role]]

NoLocals ==
    [entity |-> Nil, id |-> "", genres |-> <<>>,
     topTracks |-> Nil, albums |-> Nil, singles |-> Nil]

\* the order in which a display function does its work, with the supplemental
\* fetches moved in front of the image
DisplayStepsImageLast(fn) ==
    IF fn = "DisplayArtist"
    THEN <<"top-tracks", "albums", "singles", "image", "print">>
    ELSE <<"genres", "image", "print">>

\* the order in which a display function does its work
DisplaySteps(fn) ==
    IF fn = "DisplayArtist"
    THEN <<"image", "top-tracks", "albums", "singles", "print">>
    ELSE <<"image", "genres", "print">>

FirstStep(fn) == fn \o "." \o DisplaySteps(fn)[1]

StepAfter(fn, step) ==
    LET steps == DisplaySteps(fn)
        k == CHOOSE i \in DOMAIN steps : steps[i] = step
    IN  fn \o "." \o steps[k + 1]

Init ==
    /\ pc = "Run"
    /\ searchType \in SearchTypes
    /\ reqSize \in ReqSizes
    /\ imageSize = reqSize
    /\ cfg \in Configs
    /\ term = <<>>
    /\ exitCode = Nil
    /\ locals = NoLocals
    /\ client = Nil
    /\ now = 1
    /\ ops = <<>>
    /\ lastCall = Nil
    /\ IdleFn

\* ---- what a step leaves behind ----

\* a client call has returned
Called(role, op, env, ret) ==
    /\ client' = ret.client
    /\ now' = ret.now
    /\ lastCall' = CallRecord(op, env, ret)
    /\ ops' = ops \o Logged(ret.sent, role)

\* a display function is entered with the record it shows
Enter(fn, entity) ==
    /\ pc' = FirstStep(fn)
    /\ locals' = [NoLocals EXCEPT !.entity = Some(entity)]
    /\ renderer' = NewImageRenderer(imageSize)
    /\ UNCHANGED <<term, exitCode>>

\* the function goes on to its next call
Goto(label, id) ==
    /\ pc' = label
    /\ locals' = [NoLocals EXCEPT !.id = id]
    /\ UNCHANGED <<term, exitCode, renderer>>

\* msgs are printed, the search function and then Run return
Finish(msgs) ==
    /\ term' = RunReturns(term \o msgs)
    /\ exitCode' = Some(0)
    /\ pc' = "exited"
    /\ UNCHANGED <<locals, renderer>>

\* msgs are printed and os.Exit(1) ends the process where it stands
Abort(msgs) ==
    /\ term' = term \o msgs
    /\ exitCode' = Some(1)
    /\ pc' = "exited"
    /\ UNCHANGED <<locals, renderer>>

\* ---- searchCmd.Run up to the dispatch ----
Run ==
    /\ pc = "Run"
    /\ IF ~HasCredentials(cfg)
       THEN /\ term' = <<Println("No Spotify credentials found!"),
                         Println("Run 'mufetch auth' to set up your API credentials.")>>
            /\ exitCode' = Some(1)
            /\ pc' = "exited"
            /\ UNCHANGED <<client, imageSize>>
       ELSE /\ client' = NewClient(cfg.SpotifyClientID, cfg.SpotifyClientSecret)
            /\ term' = <<HideCursor, Newline>>
            /\ imageSize' = ClampSize(imageSize)
            /\ pc' = IF searchType = "auto" THEN "searchAuto.track"
                     ELSE "searchSpecific.search"
            /\ UNCHANGED exitCode
    /\ UNCHANGED <<searchType, reqSize, cfg, locals, now, ops, lastCall>>
    /\ UNCHANGED fnVars

\* ---- searchAuto ----
\* a searchAuto that skips the track search and begins with the album
AutoTrackSkipped ==
    /\ pc = "searchAuto.track"
    /\ pc' = "searchAuto.album"
    /\ UNCHANGED <<searchType, reqSize, imageSize, term, exitCode, locals, cfg>>
    /\ UNCHANGED clientVars
    /\ UNCHANGED fnVars

AutoTrack ==
    /\ pc = "searchAuto.track"
    /\ \E env \in RunEnvs(SearchBodies("track")) :
        LET ret == Search(client, now, env, Query, "track")
        IN  /\ Called("search", "Search", env, ret)
            /\ IF ret.err = None /\ Len(ret.res[1].Tracks.Items) > 0
               THEN Enter("DisplayTrack", ret.res[1].Tracks.Items[1])
               ELSE Goto("searchAuto.album", "")
    /\ UNCHANGED <<searchType, reqSize, imageSize, cfg>>
    /\ UNCHANGED <<imageURL, imageLines, infoLines, links, printed>>

AutoAlbum ==
    /\ pc = "searchAuto.album"
    /\ \E env \in RunEnvs(SearchBodies("album")) :
        LET ret == Search(client, now, env, Query, "album")
        IN  /\ Called("search", "Search", env, ret)
            /\ IF ret.err = None /\ Len(ret.res[1].Albums.Items) > 0
               THEN Goto("searchAuto.albumDetail", ret.res[1].Albums.Items[1].ID)
               ELSE Goto("searchAuto.artist", "")
    /\ UNCHANGED <<searchType, reqSize, imageSize, cfg>>
    /\ UNCHANGED <<imageURL, imageLines, infoLines, links, printed>>

AutoAlbumDetail ==
    /\ pc = "searchAuto.albumDetail"
    /\ \E env \in RunEnvs(RunAlbums) :
        LET ret == GetAlbum(client, now, env, locals.id)
        IN  /\ Called("detail", "GetAlbum", env, ret)
            /\ IF ret.err = None
               THEN Enter("DisplayAlbum", ret.res[1])
               ELSE Goto("searchAuto.artist", "")
    /\ UNCHANGED <<searchType, reqSize, imageSize, cfg>>
    /\ UNCHANGED <<imageURL, imageLines, infoLines, links, printed>>

AutoArtist ==
    /\ pc = "searchAuto.artist"
    /\ \E env \in RunEnvs(SearchBodies("artist")) :
        LET ret == Search(client, now, env, Query, "artist")
        IN  /\ Called("search", "Search", env, ret)
            /\ IF ret.err = None /\ Len(ret.res[1].Artists.Items) > 0
               THEN Goto("searchAuto.artistDetail", ret.res[1].Artists.Items[1].ID)
               ELSE Finish(<<Println("No results found for: " \o Query)>>)
    /\ UNCHANGED <<searchType, reqSize, imageSize, cfg>>
    /\ UNCHANGED <<imageURL, imageLines, infoLines, links, printed>>

AutoArtistDetail ==
    /\ pc = "searchAuto.artistDetail"
    /\ \E env \in RunEnvs(RunArtists) :
        LET ret == GetArtist(client, now, env, locals.id)
        IN  /\ Called("detail", "GetArtist", env, ret)
            /\ IF ret.err = None
               THEN Enter("DisplayArtist", ret.res[1])
               ELSE Finish(<<Println("No results found for: " \o Query)>>)
    /\ UNCHANGED <<searchType, reqSize, imageSize, cfg>>
    /\ UNCHANGED <<imageURL, imageLines, infoLines, links, printed>>

\* ---- searchSpecific ----
SpecificSearch ==
    /\ pc = "searchSpecific.search"
    /\ \E env \in RunEnvs(SearchBodies(searchType)) :
        LET ret == Search(client, now, env, Query, searchType)
        IN  /\ Called("search", "Search", env, ret)
            /\ IF ret.err # None
               THEN Abort(<<Println("Search failed: " \o ret.err)>>)
               ELSE CASE searchType = "track" ->
                           IF Len(ret.res[1].Tracks.Items) > 0
                           THEN Enter("DisplayTrack", ret.res[1].Tracks.Items[1])
                           ELSE Finish(<<Println("No tracks found for: " \o Query)>>)
                      [] searchType = "album" ->
                           IF Len(ret.res[1].Albums.Items) > 0
                           THEN Goto("searchSpecific.albumDetail",
                                     ret.res[1].Albums.Items[1].ID)
                           ELSE Finish(<<Println("No albums found for: " \o Query)>>)
                      [] searchType = "artist" ->
                           IF Len(ret.res[1].Artists.Items) > 0
                           THEN Goto("searchSpecific.artistDetail",
                                     ret.res[1].Artists.Items[1].ID)
                           ELSE Finish(<<Println("No artists found for: " \o Query)>>)
                      [] OTHER -> Finish(<<>>)
    /\ UNCHANGED <<searchType, reqSize, imageSize, cfg>>
    /\ UNCHANGED <<imageURL, imageLines, infoLines, links, printed>>

SpecificAlbumDetail ==
    /\ pc = "searchSpecific.albumDetail"
    /\ \E env \in RunEnvs(RunAlbums) :
        LET ret == GetAlbum(client, now, env, locals.id)
        IN  /\ Called("detail", "GetAlbum", env, ret)
            /\ IF ret.err = None
               THEN Enter("DisplayAlbum", ret.res[1])
               ELSE Finish(<<Println("Failed to get album details: " \o ret.err)>>)
    /\ UNCHANGED <<searchType, reqSize, imageSize, cfg>>
    /\ UNCHANGED <<imageURL, imageLines, infoLines, links, printed>>

SpecificArtistDetail ==
    /\ pc = "searchSpecific.artistDetail"
    /\ \E env \in RunEnvs(RunArtists) :
        LET ret == GetArtist(client, now, env, locals.id)
        IN  /\ Called("detail", "GetArtist", env, ret)
            /\ IF ret.err = None
               THEN Enter("DisplayArtist", ret.res[1])
               ELSE Finish(<<Println("Failed to get artist details: " \o ret.err)>>)
    /\ UNCHANGED <<searchType, reqSize, imageSize, cfg>>
    /\ UNCHANGED <<imageURL, imageLines, infoLines, links, printed>>

\* ---- the display functions ----

\* the GET RenderImageLines makes: none for an empty URL
ImageRequests(url, resp) ==
    IF url = "" THEN <<>>
    ELSE <<[req |-> "image", ok |-> downloadImage(url, resp).err = None, arg |-> url,
            role |-> "image"]>>

\* the image of a display function: the first image of the record is
\* rendered, a record without images gets the placeholder
DisplayImage(fn, images) ==
    /\ pc = fn \o ".image"
    /\ IF Len(images) > 0
       THEN \E resp \in ImageResponses :
               /\ imageURL' = images[1].URL
               /\ imageLines' = RenderImageLines(renderer, images[1].URL, resp)
               /\ ops' = ops \o ImageRequests(images[1].URL, resp)
       ELSE /\ imageLines' = getPlaceholderLines(renderer)
            /\ UNCHANGED <<imageURL, ops>>
    /\ pc' = StepAfter(fn, "image")
    /\ UNCHANGED <<searchType, reqSize, imageSize, cfg, term, exitCode, locals>>
    /\ UNCHANGED <<client, now, lastCall, renderer, infoLines, links, printed>>

\* the genres of a track or album: its own, or else those of its first artist
\* when the client gets that artist
DisplayGenres(fn, own, artists) ==
    /\ pc = fn \o ".genres"
    /\ IF Len(own) = 0 /\ Len(artists) > 0
       THEN \E env \in RunEnvs(RunArtists) :
               LET ret == GetArtist(client, now, env, artists[1].ID)
               IN  /\ Called("supplemental", "GetArtist", env, ret)
                   /\ locals' = [locals EXCEPT !.genres =
                                    IF ret.err = None THEN ret.res[1].Genres ELSE own]
       ELSE /\ locals' = [locals EXCEPT !.genres = own]
            /\ UNCHANGED clientVars
    /\ pc' = StepAfter(fn, "genres")
    /\ UNCHANGED <<searchType, reqSize, imageSize, cfg, term, exitCode>>
    /\ UNCHANGED fnVars

\* displaySideBySideWithLinks prints the composed lines, the display function,
\* the search function and then Run return
DisplayPrint(fn, infos, ls) ==
    /\ pc = fn \o ".print"
    /\ infoLines' = infos
    /\ links' = ls
    /\ printed' = displaySideBySideWithLinks(imageLines, infos, ls)
    /\ term' = RunReturns(term \o [i \in DOMAIN printed' |-> printed'[i] \o Newline])
    /\ exitCode' = Some(0)
    /\ pc' = "exited"
    /\ UNCHANGED <<searchType, reqSize, imageSize, cfg, locals>>
    /\ UNCHANGED clientVars
    /\ UNCHANGED <<renderer, imageURL, imageLines>>

TrackImage ==
    /\ locals.entity # Nil
    /\ DisplayImage("DisplayTrack", locals.entity[1].Album.Images)

TrackGenres ==
    /\ locals.entity # Nil
    /\ DisplayGenres("DisplayTrack", locals.entity[1].Album.Genres, locals.entity[1].Artists)

TrackPrint ==
    /\ locals.entity # Nil
    /\ DisplayPrint("DisplayTrack", TrackInfoLines(locals.entity[1], locals.genres),
                    TrackLinks(locals.entity[1]))

AlbumImage ==
    /\ locals.entity # Nil
    /\ DisplayImage("DisplayAlbum", locals.entity[1].Images)

AlbumGenres ==
    /\ locals.entity # Nil
    /\ DisplayGenres("DisplayAlbum", locals.entity[1].Genres, locals.entity[1].Artists)

AlbumPrint ==
    /\ locals.entity # Nil
    /\ DisplayPrint("DisplayAlbum", AlbumInfoLines(locals.entity[1], locals.genres),
                    AlbumLinks(locals.entity[1]))

ArtistImage ==
    /\ locals.entity # Nil
    /\ DisplayImage("DisplayArtist", locals.entity[1].Images)

\* the three supplemental fetches of DisplayArtist; an error is dropped and
\* leaves the result nil
ArtistTopTracks ==
    /\ pc = "DisplayArtist.top-tracks"
    /\ \E env \in RunEnvs(RunTopTracks) :
        LET ret == GetArtistTopTracks(client, now, env, locals.entity[1].ID)
        IN  /\ Called("supplemental", "GetArtistTopTracks", env, ret)
            /\ locals' = [locals EXCEPT !.topTracks = ret.res]
    /\ pc' = StepAfter("DisplayArtist", "top-tracks")
    /\ UNCHANGED <<searchType, reqSize, imageSize, cfg, term, exitCode>>
    /\ UNCHANGED fnVars

ArtistAlbums ==
    /\ pc = "DisplayArtist.albums"
    /\ \E env \in RunEnvs(RunArtistAlbums) :
        LET ret == GetArtistAlbums(client, now, env, locals.entity[1].ID, "album")
        IN  /\ Called("supplemental", "GetArtistAlbums", env, ret)
            /\ locals' = [locals EXCEPT !.albums = ret.res]
    /\ pc' = StepAfter("DisplayArtist", "albums")
    /\ UNCHANGED <<searchType, reqSize, imageSize, cfg, term, exitCode>>
    /\ UNCHANGED fnVars

ArtistSingles ==
    /\ pc = "DisplayArtist.singles"
    /\ \E env \in RunEnvs(RunArtistAlbums) :
        LET ret == GetArtistAlbums(client, now, env, locals.entity[1].ID, "single")
        IN  /\ Called("supplemental", "GetArtistAlbums", env, ret)
            /\ locals' = [locals EXCEPT !.singles = ret.res]
    /\ pc' = StepAfter("DisplayArtist", "singles")
    /\ UNCHANGED <<searchType, reqSize, imageSize, cfg, term, exitCode>>
    /\ UNCHANGED fnVars

ArtistPrint ==
    /\ locals.entity # Nil
    /\ DisplayPrint("DisplayArtist",
                    ArtistInfoLines(locals.entity[1], locals.topTracks, locals.albums,
                                    locals.singles),
                    ArtistLinks(locals.entity[1]))

Next ==
    \/ Run
    \/ AutoTrack
    \/ AutoAlbum
    \/ AutoAlbumDetail
    \/ AutoArtist
    \/ AutoArtistDetail
    \/ SpecificSearch
    \/ SpecificAlbumDetail
    \/ SpecificArtistDetail
    \/ TrackImage
    \/ TrackGenres
    \/ TrackPrint
    \/ AlbumImage
    \/ AlbumGenres
    \/ AlbumPrint
    \/ ArtistImage
    \/ ArtistTopTracks
    \/ ArtistAlbums
    \/ ArtistSingles
    \/ ArtistPrint

Spec == Init /\ [][Next]_vars


(***************************************************************************)
(* The terminal: what the strings written so far leave on the screen.  The *)
(* screen is a list of lines and a cursor; text is written at the cursor   *)
(* (the command writes text only at the end of the cursor's line).         *)
(***************************************************************************)
\* the control sequences that move the cursor or erase: line feed, cursor to
\* the start of the previous line (CPL), erase from the cursor to the end of
\* the line (EL); colours, hyperlinks and cursor visibility do neither
IsMoving(piece) == piece.esc /\ piece.txt \in {"\n", "\\033[F", "\\033[K"}

EmptyScreen == [lines |-> <<Empty>>, row |-> 1, col0 |-> TRUE]

\* the string shows at least one character
HasText(str) == \E k \in DOMAIN str : ~str[k].esc /\ str[k].txt # ""

\* the pieces seg are written at the cursor
AddText(scr, seg) ==
    IF seg = <<>> THEN scr
    ELSE [scr EXCEPT !.lines[scr.row] = @ \o seg,
                     !.col0 = @ /\ ~HasText(seg)]

\* a moving control sequence is obeyed
Control(scr, piece) ==
    CASE piece.txt = "\n" ->
            [lines |-> IF scr.row = Len(scr.lines) THEN Append(scr.lines, Empty)
                       ELSE scr.lines,
             row |-> scr.row + 1, col0 |-> TRUE]
      [] piece.txt = "\\033[F" ->
            [scr EXCEPT !.row = IF @ > 1 THEN @ - 1 ELSE 1, !.col0 = TRUE]
      [] OTHER ->
            IF scr.col0 THEN [scr EXCEPT !.lines[scr.row] = Empty] ELSE scr

\* the first moving control sequence of str at or after position i
NextMoving(str, i) ==
    IF \E k \in i..Len(str) : IsMoving(str[k])
    THEN CHOOSE k \in i..Len(str) :
            IsMoving(str[k]) /\ \A j \in i..(k - 1) : ~IsMoving(str[j])
    ELSE Len(str) + 1

\* the string str is written from its position i on
RECURSIVE WriteFrom(_, _, _)
WriteFrom(scr, str, i) ==
    IF i > Len(str) THEN scr
    ELSE LET k == NextMoving(str, i)
             after == AddText(scr, SubSeq(str, i, k - 1))
         IN  IF k > Len(str) THEN after
             ELSE WriteFrom(Control(after, str[k]), str, k + 1)

\* the strings lo..hi of those written are written, in order
RECURSIVE WriteRange(_, _, _)
WriteRange(scr, lo, hi) ==
    IF lo > hi THEN scr
    ELSE IF lo = hi THEN WriteFrom(scr, term[lo], 1)
    ELSE LET mid == (lo + hi) \div 2
         IN  \* the second half is written on the screen the first half left
             CHOOSE out \in {WriteRange(half, mid + 1, hi) :
                                half \in {WriteRange(scr, lo, mid)}} : TRUE

Screen == WriteRange(EmptyScreen, 1, Len(term))

(***************************************************************************)
(* RenderSpec: RenderImageLines applied to every grid size the command can *)
(* hand it, every image URL and every answer of the network                *)
(***************************************************************************)

RenderInit ==
    /\ pc = "render"
    /\ renderer \in {NewImageRenderer(size) : size \in MinImageSize..MaxImageSize}
    /\ imageURL \in ImageURLs
    /\ imageLines = <<>> /\ infoLines = <<>> /\ links = <<>> /\ printed = <<>>
    /\ locals = [resp |-> Nil]
    /\ IdleCmd /\ IdleClient

\* one call of RenderImageLines; resp is what the GET of imageURL comes back
\* with (no request is made when the URL is empty)
RenderCall ==
    /\ pc = "render"
    /\ \E resp \in ImageResponses :
        /\ imageLines' = RenderImageLines(renderer, imageURL, resp)
        /\ locals' = [resp |-> Some(resp)]
    /\ pc' = "rendered"
    /\ UNCHANGED <<searchType, reqSize, imageSize, term, exitCode, cfg>>
    /\ UNCHANGED clientVars
    /\ UNCHANGED <<renderer, imageURL, infoLines, links, printed>>

RenderNext == RenderCall

RenderSpec == RenderInit /\ [][RenderNext]_vars

(***************************************************************************)
(* LayoutSpec: displaySideBySideWithLinks applied to images of the heights *)
(* the renderer produces, panels of every length the display functions     *)
(* build, and the link lists they build                                    *)
(***************************************************************************)
\* the longest panel (an album with genres, a label and five listed tracks
\* has 16 lines; the shortest, an artist's, has 3)
MaxInfoLines == 16

\* image heights: the smallest and largest grid and the placeholder
LayoutHeights == {MinImageSize, PlaceholderHeight, MaxImageSize}

\* n lines that differ from each other, so that a printed line tells which
\* input line it was made of
NumberedLines(tag, n) == [i \in 1..n |-> Txt(tag \o IntToStr(i))]

\* the link lists DisplayTrack / DisplayAlbum and DisplayArtist build
LinkLists ==
    {CoverLinks(images, url) : images \in ImageLists, url \in CatalogURLs}
    \cup {ArtistLinks(MkArtist("a1", images, <<>>, url)) :
             images \in ImageLists, url \in CatalogURLs}

LayoutInit ==
    /\ pc = "layout"
    /\ imageLines \in {NumberedLines("image", h) : h \in LayoutHeights}
    /\ infoLines \in {NumberedLines("info", n) : n \in 3..MaxInfoLines}
    /\ links \in LinkLists
    /\ printed = <<>>
    /\ renderer = Nil /\ imageURL = ""
    /\ locals = Nil
    /\ IdleCmd /\ IdleClient

LayoutCall ==
    /\ pc = "layout"
    /\ printed' = displaySideBySideWithLinks(imageLines, infoLines, links)
    /\ pc' = "printed"
    /\ UNCHANGED <<searchType, reqSize, imageSize, term, exitCode, locals, cfg>>
    /\ UNCHANGED clientVars
    /\ UNCHANGED <<renderer, imageURL, imageLines, infoLines, links>>

LayoutNext == LayoutCall

LayoutSpec == LayoutInit /\ [][LayoutNext]_vars

(***************************************************************************)
(* FormatSpec: formatOrdinalDate applied to release dates as the catalog   *)
(* gives them (day, month or year precision) and to other strings          *)
(***************************************************************************)
DateYears == {1999, 2024}

\* n in two digits
TwoDigits(n) == IF n < 10 THEN "0" \o IntToStr(n) ELSE IntToStr(n)

\* year-month-day texts, whether or not the calendar has that day
DayTexts ==
    {IntToStr(y) \o "-" \o TwoDigits(m) \o "-" \o TwoDigits(d) :
        y \in DateYears, m \in 1..12, d \in 1..31}

OtherTexts ==
    {"", "2020", "0099", "2020-01", "20200", "202", "2020-1-5", "2020-13-01",
     "2020-00-10", "2020-01-00", "2020-01-32", "2020/01/05", "05-01-2020",
     "2020-01-05T00:00:00Z", "unknown", "abcd"}

FormatInit ==
    /\ pc = "format"
    /\ locals \in {[dateStr |-> t, out |-> ""] : t \in DayTexts \cup OtherTexts}
    /\ IdleCmd /\ IdleClient /\ IdleFn

\* one call of formatOrdinalDate
FormatCall ==
    /\ pc = "format"
    /\ locals' = [locals EXCEPT !.out = formatOrdinalDate(locals.dateStr)]
    /\ pc' = "formatted"
    /\ UNCHANGED <<searchType, reqSize, imageSize, term, exitCode, cfg>>
    /\ UNCHANGED clientVars
    /\ UNCHANGED fnVars

FormatNext == FormatCall

FormatSpec == FormatInit /\ [][FormatNext]_vars

(***************************************************************************)
(* Claims                                                                  *)
(***************************************************************************)
\* the strings written to the terminal so far
Written == {term[i] : i \in DOMAIN term}

\* C1: a process that has written the hide-cursor sequence and has ended has
\* written the show-cursor sequence too, whichever way it ended.
C1_CursorRestored ==
    (pc = "exited" /\ HideCursor \in Written) => ShowCursor \in Written

\* C2: a process during which a token exchange failed ends with a nonzero
\* exit status, in auto mode and with a forced kind.
C2_TokenFailureExits ==
    (pc = "exited" /\ \E i \in DOMAIN ops : ops[i].role = "authenticate" /\ ~ops[i].ok)
        => exitCode = Some(1)

\* C3: a new client holds no token and no exchange has happened before the
\* first call.  A call made while the clock is before the stored expiry sends
\* no token request, leaves the client as it is and sends the stored token.  A
\* call made at or after the expiry sends exactly one token request, first;
\* when a token comes back it is stored with expiry = the clock at that moment
\* + expires_in, and the catalog request that follows carries it.
C3_TokenLifecycle ==
    /\ [](lastCall = Nil => (client.AccessToken = "" /\ client.TokenExpiry = 0))
    /\ [][lastCall' # lastCall =>
            LET r == lastCall'[1]
                exch == {i \in DOMAIN r.sent : r.sent[i].req = "token"}
                gets == {i \in DOMAIN r.sent : r.sent[i].req # "token"}
            IN  IF now < client.TokenExpiry
                THEN /\ exch = {}
                     /\ client' = client
                     /\ gets = {1}
                     /\ r.sent[1].bearer = client.AccessToken
                ELSE /\ exch = {1}
                     /\ r.tok.kind = "ok" =>
                            /\ gets = {2}
                            /\ r.sent[2].bearer = r.tok.access_token
                            /\ client'.AccessToken = r.tok.access_token
                            /\ client'.TokenExpiry = r.sent[2].at + r.tok.expires_in
                     /\ r.tok.kind # "ok" => gets = {}
         ]_vars

\* C3's case: a call made after the clock has moved on finds the stored expiry
\* reached, exchanges the token once and sends the token it got
C3_Witness ==
    /\ pc = "client"
    /\ lastCall # Nil
    /\ lastCall[1].tok.kind = "ok"
    /\ lastCall[1].sent[1].at > 1
    /\ Len(lastCall[1].sent) = 2
    /\ client.AccessToken = "tokenB"
    /\ lastCall[1].sent[2].bearer = "tokenB"

\* the requests of the run so far, by the stage that made them
Stage(i) == ops[i].role

\* C4 as stated: the stages follow each other as authenticate, search, detail,
\* supplemental fetches, image, print; in particular no supplemental fetch
\* comes after the image download.
C4_ImageAfterSupplemental ==
    \A i \in DOMAIN ops, j \in DOMAIN ops :
        (i < j /\ Stage(i) = "image") => Stage(j) # "supplemental"

\* C4 as the program runs: the first request is a token exchange and every
\* catalog request has a successful exchange before it; a detail fetch follows
\* a search; once a display has begun (image or supplemental fetch) no search
\* or detail fetch follows; the image download of a display precedes each of
\* its supplemental fetches; the panel is composed and the lines are printed
\* in the last step, after which no request is made.
C4_ImageBeforeSupplemental ==
    /\ ops # <<>> => Stage(1) = "authenticate"
    /\ \A j \in DOMAIN ops :
          Stage(j) \in {"search", "detail", "supplemental"} =>
              \E k \in 1..(j - 1) : Stage(k) = "authenticate" /\ ops[k].ok
    /\ \A j \in DOMAIN ops :
          Stage(j) = "detail" => (j > 1 /\ Stage(j - 1) = "search" /\ ops[j - 1].ok)
    /\ \A i \in DOMAIN ops, j \in DOMAIN ops :
          (i < j /\ Stage(i) \in {"image", "supplemental"}) =>
              Stage(j) \notin {"authenticate", "search", "detail"}
    /\ \A i \in DOMAIN ops, j \in DOMAIN ops :
          (i < j /\ Stage(i) = "supplemental") => Stage(j) # "image"
    /\ printed # <<>> => (pc = "exited" /\ infoLines # <<>>)

\* C4's case: a run that searched, fetched the detail record, downloaded an
\* image, made a supplemental fetch and printed
C4_Witness ==
    /\ pc = "exited"
    /\ printed # <<>>
    /\ \E i \in DOMAIN ops : Stage(i) = "detail"
    /\ \E i \in DOMAIN ops : Stage(i) = "image"
    /\ \E i \in DOMAIN ops : Stage(i) = "supplemental"

\* the visible label of a link built by the display functions (colour, opening
\* hyperlink escape, label, closing escape, reset)
LinkLabel(link) == link[3].txt

\* the last n pieces of the string s
Suffix(s, n) == SubSeq(s, Len(s) - n + 1, Len(s))

\* C5: for a link list holding a catalog ("Spotify") link and an image link
\* ("Album Cover" / "Artist Photo"), whatever the two targets and whichever
\* was appended first, the link row ends with the catalog link, the gap, the
\* image link.
C5_LinkRowOrder ==
    (pc = "printed" /\ Len(links) = 2) =>
        \E s \in {links[1], links[2]}, m \in {links[1], links[2]} :
            /\ LinkLabel(s) = "Spotify"
            /\ LinkLabel(m) \in {"Album Cover", "Artist Photo"}
            /\ LET row == printed[Max(Len(imageLines), Len(infoLines)) - 1]
                   want == s \o Gap \o m
               IN  /\ Len(row) >= Len(want)
                   /\ Suffix(row, Len(want)) = want

\* C6: every value RenderImageLines returns, block art or placeholder, has as
\* many lines as the grid size and lines of one visible width.
C6_GridShape ==
    pc = "rendered" =>
        /\ Len(imageLines) = renderer.height
        /\ \A i \in DOMAIN imageLines, j \in DOMAIN imageLines :
               VisibleWidth(imageLines[i]) = VisibleWidth(imageLines[j])

\* C7: RenderImageLines returns the placeholder whenever the URL is empty, the
\* request fails, the response has a non-success status or the body does not
\* decode, and block art only for a successful response with a decodable body.
C7_PlaceholderOnFailure ==
    pc = "rendered" =>
        LET resp == locals.resp[1]
            failed == \/ imageURL = ""
                      \/ resp.neterr
                      \/ resp.status # 200
                      \/ resp.pic = Nil
        IN  failed <=> (imageLines = getPlaceholderLines(renderer))

\* C8: with an image of H lines, a panel of at most H-2 lines and at least one
\* link, H lines are printed: lines 1..H-2 are the image line, the gap and the
\* panel line of the same index (nothing after the gap once the panel has run
\* out); line H-1 is image line H-1, the gap and the link row; line H is image
\* line H and the gap.
C8_Composition ==
    LET H == Len(imageLines)
    IN  (pc = "printed" /\ Len(links) >= 1 /\ Len(infoLines) <= H - 2) =>
            /\ Len(printed) = H
            /\ \A i \in 1..(H - 2) :
                   printed[i] = imageLines[i] \o Gap
                                \o (IF i <= Len(infoLines) THEN infoLines[i] ELSE Empty)
            /\ LET row == printed[H - 1]
                   n == Len(imageLines[H - 1]) + Len(Gap)
               IN  /\ Len(row) > n
                   /\ SubSeq(row, 1, n) = imageLines[H - 1] \o Gap
                   /\ SubSeq(row, n + 1, Len(row)) \in
                          {l : l \in {links[k] : k \in DOMAIN links}}
                          \cup {l1 \o Gap \o l2 : l1 \in {links[k] : k \in DOMAIN links},
                                                 l2 \in {links[k] : k \in DOMAIN links}}
            /\ printed[H] = imageLines[H] \o Gap

\* C8's case: a panel shorter than H-2 lines, so that blank lines fill it up,
\* and two links
C8_Witness ==
    /\ pc = "printed"
    /\ Len(links) = 2
    /\ Len(infoLines) < Len(imageLines) - 2
    /\ Len(printed) = Len(imageLines)

C10_SizeRange ==
    (reqSize >= 20 /\ reqSize <= 50 /\ locals.entity # Nil) =>
        (renderer.width = reqSize /\ renderer.height = reqSize)

\* the kinds searched so far, in order
RECURSIVE KindsFrom(_)
KindsFrom(i) ==
    IF i > Len(ops) THEN <<>>
    ELSE (IF ops[i].role = "search" THEN <<ops[i].arg>> ELSE <<>>) \o KindsFrom(i + 1)
SearchedKinds == KindsFrom(1)

\* the kind of the record a display function was entered with
DisplayedKind ==
    IF locals.entity = Nil THEN "none"
    ELSE IF "Album" \in DOMAIN locals.entity[1] THEN "track"
    ELSE IF "Tracks" \in DOMAIN locals.entity[1] THEN "album"
    ELSE "artist"

NotFoundMessage == Println("No results found for: " \o Query)

\* how far searchAuto has come
AutoStage(p) ==
    CASE p = "Run" -> 0
      [] p = "searchAuto.track" -> 1
      [] p = "searchAuto.album" -> 2
      [] p = "searchAuto.albumDetail" -> 3
      [] p = "searchAuto.artist" -> 4
      [] p = "searchAuto.artistDetail" -> 5
      [] p = "exited" -> 7
      [] OTHER -> 6

\* the kind searchAuto asks for at the place p
AutoKind(p) ==
    IF p = "searchAuto.track" THEN "track"
    ELSE IF p = "searchAuto.album" THEN "album"
    ELSE "artist"

\* C11: in auto mode the kinds are tried in the order track, album, artist,
\* each by one Search call.  A search that comes back non-empty leads to the
\* display of that kind (for album and artist once the detail fetch has
\* succeeded); anything else leads to the next kind.  After a display function
\* has been entered no search is made and the record shown does not change;
\* the displayed kind is the last one searched.  The not-found message is
\* written only after the artist has been tried, with nothing displayed.
C11_AutoOrder ==
    /\ [](searchType = "auto" =>
            /\ \A i \in DOMAIN SearchedKinds, j \in DOMAIN SearchedKinds :
                  i < j => \/ SearchedKinds[i] = "track" /\ SearchedKinds[j] # "track"
                           \/ SearchedKinds[i] = "album" /\ SearchedKinds[j] = "artist"
            /\ locals.entity # Nil =>
                   (SearchedKinds # <<>> /\ DisplayedKind = SearchedKinds[Len(SearchedKinds)])
            /\ NotFoundMessage \in Written =>
                   (pc = "exited" /\ locals.entity = Nil /\ printed = <<>>))
    /\ [][(searchType = "auto" /\ pc' # pc) =>
            /\ AutoStage(pc') >= AutoStage(pc)
            /\ pc = "Run" => pc' \in {"searchAuto.track", "exited"}
            /\ AutoStage(pc) \in {1, 2, 4} =>
                 /\ lastCall' # lastCall
                 /\ lastCall'[1].op = "Search"
                 /\ LET r == lastCall'[1]
                        kind == AutoKind(pc)
                        found == /\ r.err = None
                                 /\ Len(IF kind = "track" THEN r.res[1].Tracks.Items
                                        ELSE IF kind = "album" THEN r.res[1].Albums.Items
                                        ELSE r.res[1].Artists.Items) > 0
                    IN  /\ r.err = None => SearchedKinds' = Append(SearchedKinds, kind)
                        /\ CASE kind = "track" ->
                                  IF found
                                  THEN locals'.entity = Some(r.res[1].Tracks.Items[1])
                                  ELSE pc' = "searchAuto.album" /\ locals'.entity = Nil
                             [] kind = "album" ->
                                  /\ locals'.entity = Nil
                                  /\ pc' = IF found THEN "searchAuto.albumDetail"
                                           ELSE "searchAuto.artist"
                             [] kind = "artist" ->
                                  /\ locals'.entity = Nil
                                  /\ IF found THEN pc' = "searchAuto.artistDetail"
                                     ELSE pc' = "exited" /\ NotFoundMessage \in Written'
            /\ AutoStage(pc) \in {3, 5} =>
                 /\ lastCall' # lastCall
                 /\ lastCall'[1].op = (IF AutoStage(pc) = 3 THEN "GetAlbum" ELSE "GetArtist")
                 /\ IF lastCall'[1].err = None
                    THEN locals'.entity = lastCall'[1].res /\ AutoStage(pc') = 6
                    ELSE /\ locals'.entity = Nil
                         /\ IF AutoStage(pc) = 3 THEN pc' = "searchAuto.artist"
                            ELSE pc' = "exited" /\ NotFoundMessage \in Written'
            /\ AutoStage(pc) = 6 =>
                 /\ locals'.entity = locals.entity
                 /\ SearchedKinds' = SearchedKinds
                 /\ NotFoundMessage \notin Written'
         ]_vars

\* C11's case: the track and album searches found nothing usable, the artist
\* search did, and the artist has been displayed
C11_Witness ==
    /\ searchType = "auto"
    /\ pc = "exited"
    /\ SearchedKinds = <<"track", "album", "artist">>
    /\ DisplayedKind = "artist"
    /\ printed # <<>>

\* C12: whichever of the five calls was made last, it sent at most one token
\* request and at most one catalog request, the catalog request last and only
\* with the token valid beforehand or just obtained; it returned either a
\* record and no error or an error and no record; after a failed exchange no
\* catalog request was sent and an error came back; a catalog answer with a
\* non-success status or an undecodable body gave an error and no record.
C12_CallContract ==
    lastCall # Nil =>
        LET r == lastCall[1]
            n == Len(r.sent)
            exch == {i \in 1..n : r.sent[i].req = "token"}
            gets == {i \in 1..n : r.sent[i].req # "token"}
        IN  /\ exch \subseteq {1}
            /\ gets \subseteq {n}
            /\ Cardinality(gets) <= 1
            /\ (r.res = Nil) <=> (r.err # None)
            /\ \A i \in exch : r.sent[i].ok <=> r.tok.kind = "ok"
            /\ (exch # {} /\ r.tok.kind # "ok") =>
                   (gets = {} /\ r.err = r.tok.kind /\ r.res = Nil)
            /\ (exch = {} \/ r.tok.kind = "ok") => Cardinality(gets) = 1
            /\ \A i \in gets :
                   /\ r.sent[i].bearer = client.AccessToken
                   /\ r.sent[i].ok <=> r.err = None
                   /\ r.err \in {None, "neterr", "status", "decode"}

\* C12's case: a call whose token exchange failed has returned
C12_Witness ==
    /\ pc = "client"
    /\ lastCall # Nil
    /\ lastCall[1].op = "GetArtistAlbums"
    /\ lastCall[1].tok.kind = "status"
    /\ Len(lastCall[1].sent) = 1
    /\ lastCall[1].err # None

\* C13: when the URL is not empty, the request succeeds and the body decodes
\* to a non-empty picture, the result has as many lines as the grid size S and
\* every line shows 1 + 2*S characters.
C13_BlockArtShape ==
    (pc = "rendered" /\ imageURL # "" /\ ~locals.resp[1].neterr
        /\ locals.resp[1].pic # Nil) =>
        LET S == renderer.width
        IN  /\ S \in MinImageSize..MaxImageSize
            /\ Len(imageLines) = S
            /\ \A i \in DOMAIN imageLines : VisibleWidth(imageLines[i]) = 1 + 2 * S

\* C13's case: a picture that is not square has been rendered on the largest
\* grid
C13_Witness ==
    /\ pc = "rendered"
    /\ imageURL # ""
    /\ ~locals.resp[1].neterr
    /\ locals.resp[1].pic = Some([w |-> 3, h |-> 2])
    /\ renderer.width = MaxImageSize
    /\ Len(imageLines) = MaxImageSize

\* a supplemental request of the run that was answered with a record
Fetched(req, arg) ==
    \E i \in DOMAIN ops :
        /\ ops[i].role = "supplemental" /\ ops[i].req = req /\ ops[i].arg = arg
        /\ ops[i].ok

\* the panel has a line with this label (or this header)
HasLine(label) ==
    \E i \in DOMAIN infoLines : Len(infoLines[i]) >= 2 /\ infoLines[i][2].txt = label

\* the names of the tracks the panel lists, in order
RECURSIVE ListedFrom(_)
ListedFrom(i) ==
    IF i > Len(infoLines) THEN <<>>
    ELSE (IF Len(infoLines[i]) = 5 /\ infoLines[i][1] = ColorGreen[1]
          THEN <<infoLines[i][3].txt>> ELSE <<>>) \o ListedFrom(i + 1)
ListedTracks == ListedFrom(1)

\* the panel line is the text column of a printed line
InPrinted(line) ==
    \E k \in DOMAIN printed :
        /\ Len(printed[k]) >= Len(line)
        /\ SubSeq(printed[k], Len(printed[k]) - Len(line) + 1, Len(printed[k])) = line

\* C14: a run that entered DisplayArtist ends normally with the artist
\* printed, whatever the three supplemental fetches came back with.  The panel
\* has the Name, Followers and Popularity lines; an Albums line iff the album
\* count was fetched; a Singles line iff the single count was fetched; a Top
\* Tracks header iff the top tracks were fetched and are not empty, followed
\* by the first five of them at most; and every panel line is printed.
C14_ArtistPanel ==
    (pc = "exited" /\ DisplayedKind = "artist") =>
        /\ exitCode = Some(0)
        /\ printed # <<>>
        /\ HasLine("Name") /\ HasLine("Followers") /\ HasLine("Popularity")
        /\ HasLine("Albums") <=> Fetched("artist-albums", "album")
        /\ HasLine("Singles") <=> Fetched("artist-albums", "single")
        /\ HasLine("Top Tracks") <=>
               (Fetched("top-tracks", locals.entity[1].ID)
                   /\ Len(locals.topTracks[1].Tracks) > 0)
        /\ IF HasLine("Top Tracks")
           THEN LET tracks == locals.topTracks[1].Tracks
                IN  ListedTracks = [i \in 1..Min(Len(tracks), 5) |-> tracks[i].Name]
           ELSE ListedTracks = <<>>
        /\ \A i \in DOMAIN infoLines : InPrinted(infoLines[i])

\* C14's case: the album count failed, the single count and the top tracks
\* were fetched, and the artist was printed with five of six tracks
C14_Witness ==
    /\ pc = "exited"
    /\ DisplayedKind = "artist"
    /\ ~Fetched("artist-albums", "album")
    /\ Fetched("artist-albums", "single")
    /\ Len(ListedTracks) = 5
    /\ HasLine("Singles")
    /\ printed # <<>>

\* the supplemental requests of the run
SupplementalOps == {i \in DOMAIN ops : ops[i].role = "supplemental"}

\* the Genres line for the genres g: joined by ", ", and cut to 47 characters
\* and "..." when longer than 50
GenresLineOf(g) ==
    LET joined == Join(g, ", ")
    IN  formatInfoLine("Genres",
                       Txt(IF Len(joined) > 50 THEN SubSeq(joined, 1, 47) \o "..."
                           ELSE joined),
                       ColorRed)

\* C15: when an album has been displayed: if it has no genres of its own and
\* at least one artist, exactly one supplemental request was made, for its
\* first artist; when that fetch succeeded with at least one genre the panel
\* has the Genres line made of the artist's genres, and when it failed or
\* brought no genre the panel has no Genres line.  If the album has genres of
\* its own, no supplemental request was made and the Genres line is made of
\* the album's genres.
C15_AlbumGenres ==
    (pc = "exited" /\ DisplayedKind = "album") =>
        LET album == locals.entity[1]
        IN  IF Len(album.Genres) = 0 /\ Len(album.Artists) > 0
            THEN /\ Cardinality(SupplementalOps) = 1
                 /\ \A i \in SupplementalOps :
                      /\ ops[i].req = "artist"
                      /\ ops[i].arg = album.Artists[1].ID
                      /\ lastCall[1].op = "GetArtist"
                      /\ IF ops[i].ok /\ Len(lastCall[1].res[1].Genres) > 0
                         THEN \E k \in DOMAIN infoLines :
                                 infoLines[k] = GenresLineOf(lastCall[1].res[1].Genres)
                         ELSE ~HasLine("Genres")
            ELSE /\ SupplementalOps = {}
                 /\ Len(album.Genres) > 0 =>
                        \E k \in DOMAIN infoLines : infoLines[k] = GenresLineOf(album.Genres)

\* C15's case: the artist fetch for an album without genres failed and the
\* album was printed without a Genres line
C15_Witness ==
    /\ pc = "exited"
    /\ DisplayedKind = "album"
    /\ Len(locals.entity[1].Genres) = 0
    /\ \E i \in SupplementalOps : ~ops[i].ok
    /\ ~HasLine("Genres")
    /\ printed # <<>>

\* C16: the empty string gives "N/A".  A text YYYY-MM-DD naming a day the
\* calendar has gives the day without leading zero, its suffix ("th" for 11,
\* 12, 13; else "st", "nd", "rd" for a last digit 1, 2, 3; else "th"), a
\* blank, the month's three-letter name, a blank and the year.  Four digits
\* give the same four digits.  Every other string comes back as it is.
C16_DateFormat ==
    pc = "formatted" =>
        LET str == locals.dateStr
            out == locals.out
            suffix(d) == IF d \in {11, 12, 13} THEN "th"
                         ELSE IF d % 10 = 1 THEN "st"
                         ELSE IF d % 10 = 2 THEN "nd"
                         ELSE IF d % 10 = 3 THEN "rd"
                         ELSE "th"
            last(y, m) == IF m \in {4, 6, 9, 11} THEN 30
                          ELSE IF m # 2 THEN 31
                          ELSE IF y = 2024 THEN 29 ELSE 28
            months == <<"Jan", "Feb", "Mar", "Apr", "May", "Jun",
                        "Jul", "Aug", "Sep", "Oct", "Nov", "Dec">>
            days == {<<y, m, d>> \in DateYears \X (1..12) \X (1..31) :
                        /\ d <= last(y, m)
                        /\ str = IntToStr(y) \o "-" \o TwoDigits(m) \o "-" \o TwoDigits(d)}
        IN  IF str = "" THEN out = "N/A"
            ELSE IF days # {}
            THEN \A t \in days :
                    out = IntToStr(t[3]) \o suffix(t[3]) \o " " \o months[t[2]]
                          \o " " \o IntToStr(t[1])
            ELSE out = str

\* C16's case: a day in the teens whose last digit is 2
C16_Witness ==
    /\ pc = "formatted"
    /\ locals.dateStr = "2024-02-12"
    /\ locals.out = "12th Feb 2024"

\* C17: whatever was displayed, every line of the panel is the text column of
\* a printed line.
C17_NoLineDropped ==
    (pc = "exited" /\ printed # <<>>) =>
        \A i \in DOMAIN infoLines : InPrinted(infoLines[i])

\* the lines the screen shows
ScreenLines == {Screen.lines[k] : k \in DOMAIN Screen.lines}

\* C18: after a run that ended normally, every line written with visible text
\* (each line of the composed block, or the message) is on the screen.
C18_LinesKept ==
    (pc = "exited" /\ exitCode = Some(0)) =>
        \A shown \in {ScreenLines} :
            \A i \in DOMAIN term :
                HasText(term[i]) =>
                    SubSeq(term[i], 1, Len(term[i]) - 1) \in shown

\* C19: a run with credentials that has ended has displayed an entity, or has
\* written a message (some written string shows text), or has ended with a
\* nonzero exit status, whatever the kind flag was.
C19_RunProduces ==
    (pc = "exited" /\ HasCredentials(cfg)) =>
        \/ printed # <<>>
        \/ \E i \in DOMAIN term : HasText(term[i])
        \/ exitCode = Some(1)

\* the token endpoint's answers that make the exchange fail
FailedExchanges == {"neterr", "status", "decode"}

\* C20: no step changes the client id or secret.  A call whose token exchange
\* failed leaves the client as it was, with the expiry still reached, so the
\* next call exchanges again.  The stored token or expiry changes only in a
\* call whose exchange succeeded, and then both are set from that answer.
C20_FailedExchangeFrame ==
    [][/\ client'.ClientID = client.ClientID
       /\ client'.ClientSecret = client.ClientSecret
       /\ (lastCall' # lastCall /\ lastCall'[1].tok.kind \in FailedExchanges) =>
            /\ client' = client
            /\ ~(now' < client'.TokenExpiry)
            /\ authenticate(client', now', [tok |-> NoAnswer, tokLat |-> 0]).sent # <<>>
       /\ (\/ client'.AccessToken # client.AccessToken
           \/ client'.TokenExpiry # client.TokenExpiry) =>
            /\ lastCall' # Nil
            /\ lastCall'[1].tok.kind = "ok"
            /\ client'.AccessToken = lastCall'[1].tok.access_token
            /\ client'.TokenExpiry =
                    lastCall'[1].sent[2].at + lastCall'[1].tok.expires_in
      ]_vars

\* C20's case: an exchange has failed on a client that held a token from an
\* earlier exchange; the token is still stored and the expiry is reached
C20_Witness ==
    /\ pc = "client"
    /\ lastCall # Nil
    /\ lastCall[1].tok.kind \in FailedExchanges
    /\ client.AccessToken \in ClientTokens
    /\ client.TokenExpiry > 0
    /\ ~(now < client.TokenExpiry)

====
